---- MODULE Spec2Model ----
(* FrameForge (src/FrameForge.py): the main window's shared state, the six  *)
(* tool pages' "Create Video" / "Extract Audio" handlers, and the files the *)
(* handlers create and delete.  A handler that calls the external encoder   *)
(* blocks in subprocess.run; the model splits such a handler at that call   *)
(* (pc names the invocation in flight) and lets the encoder succeed or fail.*)
EXTENDS Integers, Sequences, FiniteSets, TLC

(***************************************************************************)
(* Bounds of the exploration.                                              *)
(***************************************************************************)
\* user actions (file selections, spin box and speed edits, button clicks)
\* in one session
MaxSteps == 5
\* files in the images directory when a run lists it
MaxFiles == 5

(***************************************************************************)
(* Extension tables, FrameForge.py lines 49-91.                            *)
(***************************************************************************)
AUDIO_EXTENSIONS ==
    { ".mp3", ".aac", ".m4a", ".m4b", ".m4p", ".wav", ".flac", ".alac", ".ogg", ".oga",
      ".opus", ".wma", ".aiff", ".aif", ".ape", ".wv", ".amr", ".awb", ".au", ".ra",
      ".rm", ".mp2", ".mp1", ".ac3", ".dts", ".caf", ".voc", ".tta", ".mka", ".spx",
      ".8svx", ".gsm", ".ivs", ".sln", ".vox", ".rf64", ".msv", ".dvf", ".act", ".dss" }

IMAGE_EXTENSIONS ==
    { ".jpg", ".jpeg", ".jpe", ".jfif", ".pjpeg", ".pjp",
      ".png", ".gif", ".bmp", ".webp", ".avif", ".apng", ".tif", ".tiff",
      ".heif", ".heic", ".ico", ".cur", ".xbm", ".svg", ".svgz" }

VIDEO_EXTENSIONS ==
    { ".mp4", ".m4v", ".m4p", ".mov", ".qt", ".avi", ".wmv", ".asf", ".flv", ".f4v",
      ".f4p", ".f4a", ".f4b", ".webm", ".mkv", ".mpg", ".mpeg", ".mp2", ".mpe", ".mpv",
      ".vob", ".dvd", ".3gp", ".3g2", ".svi", ".mxf", ".ogv", ".ogg", ".amv", ".rm",
      ".roq", ".nsv", ".yuv", ".gifv", ".mng", ".rrc", ".mod", ".dv" }

\* the keys of AUDIO_CODEC_MAP
AUDIO_CODEC_MAP ==
    { ".mp3", ".flac", ".wav", ".aac", ".m4a", ".alac", ".ogg", ".opus", ".wma",
      ".amr", ".aiff", ".au", ".ac3", ".dts", ".wv", ".tta", ".mp2", ".caf" }

(***************************************************************************)
(* Paths.  A path is its stem and its suffix as pathlib.Path(p).suffix     *)
(* returns it (case kept); the empty path '' is the unset field.           *)
(***************************************************************************)
Path(stem, ext) == [stem |-> stem, ext |-> ext]
NoPath == Path("", "")

\* str.lower() on the suffixes that occur
LowerTable ==
    [e \in {".MP4", ".JPG", ".PNG"} |->
        CASE e = ".MP4" -> ".mp4" [] e = ".JPG" -> ".jpg" [] e = ".PNG" -> ".png"]
Lower(e) == IF e \in DOMAIN LowerTable THEN LowerTable[e] ELSE e

\* pathlib.Path(p).suffix.lower()
SuffixLower(p) == Lower(p.ext)

\* the files the open-file dialog can return
InputFiles == { Path("clip", ".MP4"), Path("long", ".mkv"), Path("song", ".mp3"),
                Path("voice", ".ogg") }
\* the names the save-file dialogs can return
OutputVideoFiles == { Path("out", ".mp4"), Path("out", ".txt") }
OutputAudioFiles == { Path("out", ".mp3"), Path("out", ".m4b"), Path("out", ".txt") }

(***************************************************************************)
(* What ffprobe prints for a file: r_frame_rate "num/den", the container   *)
(* duration in milliseconds, and whether the audio stream listing is empty.*)
(* ok: the frame rate output parses (lines 340-341); durOk: the duration   *)
(* output parses (line 358).  Bad is any output line 340-341 raises on.    *)
(***************************************************************************)
Bad == [ok |-> FALSE, durOk |-> FALSE, num |-> 0, den |-> 1, durMs |-> 0]
Media(stem) ==
    CASE stem = "clip" -> [ok |-> TRUE, durOk |-> TRUE, num |-> 30000, den |-> 1001,
                           durMs |-> 60500]
      [] stem = "long" -> [ok |-> TRUE, durOk |-> TRUE, num |-> 25, den |-> 1,
                           durMs |-> 600000]
      [] OTHER -> Bad
\* the second ffprobe call fails or prints no number (line 347-358) after the
\* first has printed the frame rate
NoDuration(o) == [o EXCEPT !.durOk = FALSE]
\* what the two ffprobe calls can print for the file: its metadata, or the
\* output of a failing call
ProbeOutputs(stem) == { Media(stem), Bad, NoDuration(Media(stem)) }
HasAudioStream(stem) == stem \in {"clip", "song", "voice"}


(***************************************************************************)
(* Files of the images directory.  A name is its stem, as a sequence of    *)
(* characters, and its suffix; a directory maps the names it holds to the  *)
(* content of each file (a token naming the original the bytes came from). *)
(***************************************************************************)
Name(stem, ext) == [stem |-> stem, ext |-> ext]
ImgPrefix == <<"i", "m", "g", "-">>

DigitChar == <<"0", "1", "2", "3", "4", "5", "6", "7", "8", "9">>
RECURSIVE Dec(_)
\* str(n) for n >= 0, as a sequence of digit characters
Dec(n) == IF n < 10 THEN <<DigitChar[n + 1]>>
          ELSE Dec(n \div 10) \o <<DigitChar[(n % 10) + 1]>>
\* f'{num:02d}': zero-padded to width two, wider when num > 99
Fmt02d(num) == IF num < 10 THEN <<"0">> \o Dec(num) ELSE Dec(num)
\* f'img-{num:02d}.jpg'
StagedName(num) == Name(ImgPrefix \o Fmt02d(num), ".jpg")
\* glob.glob(os.path.join(images_dir, "img-??.jpg")) matches this name
GlobMatch(n) == /\ n.ext = ".jpg"
                /\ Len(n.stem) = 6
                /\ SubSeq(n.stem, 1, 4) = ImgPrefix

PhotoA == Name(<<"a">>, ".png")
PhotoB == Name(<<"b">>, ".JPG")
Notes == Name(<<"n", "o", "t", "e", "s">>, ".txt")
UserImg01 == Name(ImgPrefix \o <<"0", "1">>, ".jpg")
UserImgZZ == Name(ImgPrefix \o <<"z", "z">>, ".jpg")

\* the content of a user's file is named after the file
Original(names) == [n \in names |-> n]
\* the directories the directory dialog can return
Directories == { Original({PhotoA, PhotoB, Notes}),
                 Original({PhotoA, UserImg01}),
                 Original({PhotoA, UserImgZZ, Notes}) }

\* the two-pass statistics files ffmpeg writes in the working directory
StatsFiles == {"ffmpeg2pass-0.log", "ffmpeg2pass-0.log.mbtree"}

(***************************************************************************)
(* State.                                                                  *)
(***************************************************************************)
VARIABLES
    input_video, input_video_2, output_video, output_audio, images_dir,
    frame_rate, video_duration,   \* FFmpegGUI._init_variables
    trim,          \* the six spin boxes of TrimPage: sm ss sf em es ef
    s_max,         \* the maximum of the two seconds spin boxes
    speed,         \* SpeedPage.speed, in thousandths
    slider,        \* SpeedPage.speed_slider value
    dir,           \* content of the images directory on disk
    stats,         \* the statistics files present in the working directory
    pc,            \* "idle", or the encoder invocation a handler is blocked in
    run,           \* what the current (or the last) handler run has done
    steps          \* user actions so far

vars == <<input_video, input_video_2, output_video, output_audio, images_dir,
          frame_rate, video_duration, trim, s_max, speed, slider, dir, stats,
          pc, run, steps>>

paths == <<input_video, input_video_2, output_video, output_audio, images_dir>>
meta == <<frame_rate, video_duration>>
speedVars == <<speed, slider>>
disk == <<dir, stats>>

\* an encoder invocation: its purpose and the arguments that vary
NoInv == [purpose |-> "none", bitrate |-> 0, audio |-> FALSE,
          hasSeek |-> FALSE, hasCutTo |-> FALSE, speed |-> 0, status |-> "none"]
Inv(purpose) == [NoInv EXCEPT !.purpose = purpose, !.status = "running"]

\* the record of a handler run
NoRun == [id |-> 0, op |-> "none", result |-> "none", invs |-> <<>>, current |-> NoInv,
          before |-> <<>>, staged |-> {}, overwritten |-> {}, deleted |-> {},
          cleaned |-> FALSE, listing |-> <<>>]
NewRun(op) == [NoRun EXCEPT !.id = run.id + 1, !.op = op, !.result = "running",
                           !.before = dir]

\* the handler returns (or raises) without an invocation in flight; a raise
\* leaves the state as it is at the raising line, with result "exception"
Ended(r, result) == [r EXCEPT !.result = result, !.current = NoInv]
\* the invocation in flight exits with the given status
Exited(r, status) ==
    [r EXCEPT !.invs = Append(r.invs, [r.current EXCEPT !.status = status]),
              !.current = NoInv]

Init ==
    /\ input_video = NoPath
    /\ input_video_2 = NoPath
    /\ output_video = NoPath
    /\ output_audio = NoPath
    /\ images_dir = ""
    /\ frame_rate = 0
    /\ video_duration = 0
    /\ trim = [sm |-> 0, ss |-> 0, sf |-> 0, em |-> 0, es |-> 0, ef |-> 0]
    /\ s_max = 0
    /\ speed = 1000
    /\ slider = 100
    /\ dir = <<>>
    /\ stats = {}
    /\ pc = "idle"
    /\ run = NoRun
    /\ steps = 0

(***************************************************************************)
(* File selection and the probe, FFmpegGUI lines 269-361.                  *)
(***************************************************************************)
\* math.ceil(num / den) for num >= 0, den > 0
Ceil(num, den) == (num + den - 1) \div den

\* lines 340-344: the frame rate held after parsing "num/den"
ProbedFps(o) == IF Ceil(o.num, o.den) <= 0 THEN 1 ELSE Ceil(o.num, o.den)
\* lines 358-359: int(float(duration))
ProbedDuration(o) == o.durMs \div 1000

\* the parse of lines 340-358 raises on o
ProbeFails(o) == ~(o.ok /\ o.den # 0 /\ o.durOk)

\* the frame rate stored as soon as it is parsed, the duration afterwards
ProbeResult_half_update(o) ==
    IF o.ok /\ o.den # 0
    THEN <<ProbedFps(o), IF o.durOk THEN ProbedDuration(o) ELSE video_duration>>
    ELSE <<frame_rate, video_duration>>
\* update_video_frame_rate(filename) with ffprobe printing o: the pair
\* <<frame_rate, video_duration>> held afterwards (the one assignment of
\* line 359, or the except clause of lines 360-361)
ProbeResult(o) ==
    IF ~ProbeFails(o)
    THEN <<ProbedFps(o), ProbedDuration(o)>>
    ELSE <<frame_rate, video_duration>>

\* QSpinBox.setRange(0, max) on a spin box holding v
Clamp(v, max) == IF max <= 0 THEN 0 ELSE IF v > max THEN max ELSE v

\* TrimPage.update_trim_spinbox_ranges with the given metadata
RangedTrim(t, fps, duration) ==
    [sm |-> Clamp(t.sm, duration \div 60), ss |-> Clamp(t.ss, 59),
     sf |-> Clamp(t.sf, fps - 1),
     em |-> Clamp(t.em, duration \div 60), es |-> Clamp(t.es, 59),
     ef |-> Clamp(t.ef, fps - 1)]

\* lines 276-282 when the dialog has returned file_path and ffprobe prints o
\* for self.input_video
Selected(is_second_file, file_path, o) ==
    /\ input_video' = IF is_second_file THEN input_video ELSE file_path
    /\ input_video_2' = IF is_second_file THEN file_path ELSE input_video_2
    /\ frame_rate' = ProbeResult(o)[1]
    /\ video_duration' = ProbeResult(o)[2]
    /\ trim' = RangedTrim(trim, ProbeResult(o)[1], ProbeResult(o)[2])
    /\ s_max' = 59

\* get_input_video(text_field, is_second_file)
get_input_video(is_second_file) ==
    /\ pc = "idle"
    /\ steps < MaxSteps
    /\ \E f \in InputFiles :
         LET first == IF is_second_file THEN input_video ELSE f
         IN \E o \in ProbeOutputs(first.stem) : Selected(is_second_file, f, o)
    /\ steps' = steps + 1
    /\ UNCHANGED <<output_video, output_audio, images_dir, speedVars, disk,
                   pc, run>>

\* get_image_file_dir(text_field): the dialog returns a directory, of which
\* dir is the content from now on (a session works on one directory)
get_image_file_dir ==
    /\ pc = "idle"
    /\ steps < MaxSteps
    /\ images_dir = ""
    /\ images_dir' = "pics"
    /\ dir' \in Directories
    /\ steps' = steps + 1
    /\ UNCHANGED <<input_video, input_video_2, output_video, output_audio, meta,
                   trim, s_max, speedVars, stats, pc, run>>

get_output_video ==
    /\ pc = "idle"
    /\ steps < MaxSteps
    /\ \E f \in OutputVideoFiles : output_video' = f
    /\ steps' = steps + 1
    /\ UNCHANGED <<input_video, input_video_2, output_audio, images_dir, meta,
                   trim, s_max, speedVars, disk, pc, run>>

get_output_audio ==
    /\ pc = "idle"
    /\ steps < MaxSteps
    /\ \E f \in OutputAudioFiles : output_audio' = f
    /\ steps' = steps + 1
    /\ UNCHANGED <<input_video, input_video_2, output_video, images_dir, meta,
                   trim, s_max, speedVars, disk, pc, run>>

(***************************************************************************)
(* The trim spin boxes, TrimPage lines 478-561: the user sets one box to a *)
(* value inside its range.                                                 *)
(***************************************************************************)
TrimMinutes == {0, 1}
TrimSeconds == {0, 59}
TrimFrames == {0, 1}

SpinMax(field) ==
    CASE field \in {"sm", "em"} -> video_duration \div 60
      [] field \in {"ss", "es"} -> s_max
      [] field \in {"sf", "ef"} -> IF frame_rate - 1 < 0 THEN 0 ELSE frame_rate - 1
SpinChoices(field) ==
    CASE field \in {"sm", "em"} -> TrimMinutes
      [] field \in {"ss", "es"} -> TrimSeconds
      [] field \in {"sf", "ef"} -> TrimFrames

set_trim_spinbox ==
    /\ pc = "idle"
    /\ steps < MaxSteps
    /\ \E field \in DOMAIN trim : \E v \in SpinChoices(field) :
         /\ v <= SpinMax(field)
         /\ v # trim[field]
         /\ trim' = [trim EXCEPT ![field] = v]
    /\ steps' = steps + 1
    /\ UNCHANGED <<paths, meta, s_max, speedVars, disk, pc, run>>

(***************************************************************************)
(* The speed controls, SpeedPage.add_speed_slider_field lines 631-669.     *)
(***************************************************************************)
\* positions the user drags the slider to (range 1..1000)
SliderValues == {200}
\* numbers the user types into the box, in thousandths
SpeedTexts == {0, -1000, 1234}

\* int(x / d) for d > 0: truncation toward zero
TruncDiv(x, d) == IF x >= 0 THEN x \div d ELSE -((-x) \div d)

\* slider_changed(value): speed = value / base
slider_changed ==
    /\ pc = "idle"
    /\ steps < MaxSteps
    /\ \E value \in SliderValues :
         /\ value # slider
         /\ slider' = value
         /\ speed' = value * 10
    /\ steps' = steps + 1
    /\ UNCHANGED <<paths, meta, trim, s_max, disk, pc, run>>

\* box_changed(): the box holds a number; setValue on the slider fires
\* slider_changed when the value differs from the one held
box_changed ==
    /\ pc = "idle"
    /\ steps < MaxSteps
    /\ \E text \in SpeedTexts :
         LET value == TruncDiv(text, 10)
         IN IF 1 <= value /\ value <= 1000 /\ value # slider
            THEN /\ slider' = value
                 /\ speed' = value * 10
            ELSE /\ slider' = slider
                 /\ speed' = text
    /\ steps' = steps + 1
    /\ UNCHANGED <<paths, meta, trim, s_max, disk, pc, run>>

(***************************************************************************)
(* Compress10MBPage.create_video, lines 392-446.                           *)
(***************************************************************************)
IsVideo(p) == SuffixLower(p) \in VIDEO_EXTENSIONS

\* line 403
CompressPathsValid == IsVideo(input_video) /\ IsVideo(output_video)

target_size_bytes == 9 * 1024 * 1024
audio_bitrate == 128 * 1024
\* line 411, for duration # 0
VideoBitrate(duration) ==
    TruncDiv(target_size_bytes * 8 - audio_bitrate * duration, duration)

\* pass 2 attempted whatever pass 1 returned
AfterPass1_unchecked(ok) == "compress_pass2"
\* lines 423-427: where the handler goes when pass 1 has exited
AfterPass1(ok) == IF ok THEN "compress_pass2" ELSE "idle"
\* lines 436-446: the statistics files left when pass 2 has exited
AfterPass2Stats(present) == present \ StatsFiles

Compress_create_video ==
    /\ pc = "idle"
    /\ steps < MaxSteps
    /\ steps' = steps + 1
    /\ IF ~CompressPathsValid
       THEN \* lines 403-405
            /\ run' = Ended(NewRun("compress"), "validation_error")
            /\ pc' = "idle"
       ELSE IF video_duration = 0
       THEN \* line 411 raises ZeroDivisionError
            /\ run' = Ended(NewRun("compress"), "exception")
            /\ pc' = "idle"
       ELSE \* line 424: pass 1 starts
            /\ run' = [NewRun("compress") EXCEPT !.current =
                         [Inv("pass1") EXCEPT !.bitrate = VideoBitrate(video_duration)]]
            /\ pc' = "compress_pass1"
    /\ UNCHANGED <<paths, meta, trim, s_max, speedVars, disk>>

\* pass 1 exits; ffmpeg has written both statistics files when it succeeds
\* and any of them when it fails
Compress_pass1_exit ==
    /\ pc = "compress_pass1"
    /\ \E ok \in BOOLEAN :
         /\ IF ok THEN stats' = stats \cup StatsFiles
                  ELSE \E written \in SUBSET StatsFiles : stats' = stats \cup written
         /\ pc' = AfterPass1(ok)
         /\ IF AfterPass1(ok) = "compress_pass2"
            THEN \* line 437: pass 2 starts
                 run' = [Exited(run, IF ok THEN "ok" ELSE "failed") EXCEPT !.current =
                           [Inv("pass2") EXCEPT !.bitrate = VideoBitrate(video_duration),
                                                !.audio = TRUE]]
            ELSE \* lines 425-427
                 run' = Ended(Exited(run, "failed"), "tool_failure")
    /\ UNCHANGED <<paths, meta, trim, s_max, speedVars, dir, steps>>

\* pass 2 exits; the finally clause removes the statistics files
Compress_pass2_exit ==
    /\ pc = "compress_pass2"
    /\ \E ok \in BOOLEAN :
         /\ stats' = AfterPass2Stats(stats)
         /\ run' = [Ended(Exited(run, IF ok THEN "ok" ELSE "failed"),
                          IF ok THEN "success" ELSE "tool_failure")
                      EXCEPT !.cleaned = TRUE]
    /\ pc' = "idle"
    /\ UNCHANGED <<paths, meta, trim, s_max, speedVars, dir, steps>>

(***************************************************************************)
(* TrimPage.create_video, lines 563-603.                                   *)
(***************************************************************************)
\* line 578
TrimPathsValid == IsVideo(input_video) /\ IsVideo(output_video)

\* lines 567-568, times frame_rate: m * 60 + s + f / frame_rate in frames
OffsetFrames(m, s, f) == (m * 60 + s) * frame_rate + f
TrimStart == OffsetFrames(trim.sm, trim.ss, trim.sf)
TrimEnd == OffsetFrames(trim.em, trim.es, trim.ef)

\* line 583
TrimRejected(start, end) == start >= end

\* "-ss" passed whatever the start offset
HasSeek_always(start) == TRUE
\* lines 589-590: "-ss" is passed
HasSeek(start) == start # 0
\* lines 591-592: "-to" is passed
HasCutTo(end) == end # 0

Trim_create_video ==
    /\ pc = "idle"
    /\ steps < MaxSteps
    /\ steps' = steps + 1
    /\ IF ~TrimPathsValid
       THEN \* lines 578-580
            /\ run' = Ended(NewRun("trim"), "validation_error")
            /\ pc' = "idle"
       ELSE IF frame_rate = 0
       THEN \* line 567 raises ZeroDivisionError
            /\ run' = Ended(NewRun("trim"), "exception")
            /\ pc' = "idle"
       ELSE IF TrimRejected(TrimStart, TrimEnd)
       THEN \* lines 583-585
            /\ run' = Ended(NewRun("trim"), "validation_error")
            /\ pc' = "idle"
       ELSE \* lines 588-600
            /\ run' = [NewRun("trim") EXCEPT !.current =
                         [Inv("trim") EXCEPT !.hasSeek = HasSeek(TrimStart),
                                             !.hasCutTo = HasCutTo(TrimEnd),
                                             !.audio = HasAudioStream(input_video.stem)]]
            /\ pc' = "trim_encode"
    /\ UNCHANGED <<paths, meta, trim, s_max, speedVars, disk>>

(***************************************************************************)
(* SpeedPage.create_video, lines 671-691.                                  *)
(***************************************************************************)
\* line 675
SpeedPathsValid == IsVideo(input_video) /\ IsVideo(output_video)

Speed_create_video ==
    /\ pc = "idle"
    /\ steps < MaxSteps
    /\ steps' = steps + 1
    /\ IF ~SpeedPathsValid
       THEN /\ run' = Ended(NewRun("speed"), "validation_error")
            /\ pc' = "idle"
       ELSE IF speed = 0
       THEN \* line 679 raises ZeroDivisionError
            /\ run' = Ended(NewRun("speed"), "exception")
            /\ pc' = "idle"
       ELSE /\ run' = [NewRun("speed") EXCEPT !.current =
                         [Inv("speed") EXCEPT !.speed = speed]]
            /\ pc' = "speed_encode"
    /\ UNCHANGED <<paths, meta, trim, s_max, speedVars, disk>>

(***************************************************************************)
(* CatPage.create_video, lines 714-740.                                    *)
(***************************************************************************)
\* the second input left unchecked
CatPathsValid_first_only == IsVideo(input_video) /\ IsVideo(output_video)
\* lines 719-721
CatPathsValid ==
    IsVideo(input_video) /\ IsVideo(input_video_2) /\ IsVideo(output_video)

Cat_create_video ==
    /\ pc = "idle"
    /\ steps < MaxSteps
    /\ steps' = steps + 1
    /\ IF ~CatPathsValid
       THEN /\ run' = Ended(NewRun("cat"), "validation_error")
            /\ pc' = "idle"
       ELSE /\ run' = [NewRun("cat") EXCEPT !.current =
                         [Inv("cat") EXCEPT !.audio = TRUE]]
            /\ pc' = "cat_encode"
    /\ UNCHANGED <<paths, meta, trim, s_max, speedVars, disk>>

(***************************************************************************)
(* ExtractSoundPage.extract_audio, lines 848-880.                          *)
(***************************************************************************)
\* lines 856-858
ExtractInputsValid ==
    /\ IsVideo(input_video)
    /\ HasAudioStream(input_video.stem)
    /\ SuffixLower(output_audio) \in AUDIO_EXTENSIONS

extract_audio ==
    /\ pc = "idle"
    /\ steps < MaxSteps
    /\ steps' = steps + 1
    /\ IF ~ExtractInputsValid
       THEN \* lines 859-865
            /\ run' = Ended(NewRun("extract"), "validation_error")
            /\ pc' = "idle"
       ELSE IF SuffixLower(output_audio) \notin AUDIO_CODEC_MAP
       THEN \* line 872 raises KeyError
            /\ run' = Ended(NewRun("extract"), "exception")
            /\ pc' = "idle"
       ELSE /\ run' = [NewRun("extract") EXCEPT !.current =
                         [Inv("extract") EXCEPT !.audio = TRUE]]
            /\ pc' = "extract_encode"
    /\ UNCHANGED <<paths, meta, trim, s_max, speedVars, disk>>

\* the single invocation of a trim, speed, concatenation or extraction run
\* exits (lines 599-603, 687-691, 736-740, 876-880)
encode_exit ==
    /\ pc \in {"trim_encode", "speed_encode", "cat_encode", "extract_encode"}
    /\ \E ok \in BOOLEAN :
         run' = Ended(Exited(run, IF ok THEN "ok" ELSE "failed"),
                      IF ok THEN "success" ELSE "tool_failure")
    /\ pc' = "idle"
    /\ UNCHANGED <<paths, meta, trim, s_max, speedVars, disk, steps>>

(***************************************************************************)
(* ImageToVideoPage.create_video and fix_naming, lines 764-827.            *)
(***************************************************************************)
RECURSIVE Listings(_)
\* os.listdir returns the names in an order the platform chooses
Listings(names) ==
    IF names = {} THEN { <<>> }
    ELSE UNION { { <<n>> \o l : l \in Listings(names \ {n}) } : n \in names }

\* line 822
IsImage(n) == Lower(n.ext) \in IMAGE_EXTENSIONS

\* shutil.copy(src, dst) inside directory d
CopyFile(d, src, dst) ==
    [n \in DOMAIN d \cup {dst} |-> IF n = dst THEN d[src] ELSE d[n]]

RECURSIVE FixNamingFrom(_, _, _, _)
\* the loop of lines 821-827 from position i of the listing on, with d the
\* directory so far; raised: shutil.copy raised SameFileError
FixNamingFrom(d, images, i, num) ==
    IF i > Len(images)
    THEN [dir |-> d, raised |-> FALSE, written |-> {}]
    ELSE IF ~IsImage(images[i])
    THEN FixNamingFrom(d, images, i + 1, num)
    ELSE IF images[i] = StagedName(num)
    THEN [dir |-> d, raised |-> TRUE, written |-> {}]
    ELSE LET rest == FixNamingFrom(CopyFile(d, images[i], StagedName(num)),
                                   images, i + 1, num + 1)
         IN [rest EXCEPT !.written = rest.written \cup {StagedName(num)}]

\* fix_naming() on directory d listed as images
fix_naming(d, images) == FixNamingFrom(d, images, 1, 1)

\* line 774
ImagePathsValid == IsVideo(output_video)

\* lines 796-802: the files the cleanup removes from directory d
FilesToDelete(d) == { n \in DOMAIN d : GlobMatch(n) }
Remove(d, names) == [n \in DOMAIN d \ names |-> d[n]]

Image_create_video ==
    /\ pc = "idle"
    /\ steps < MaxSteps
    /\ steps' = steps + 1
    /\ IF ~ImagePathsValid
       THEN \* lines 774-776
            /\ run' = Ended(NewRun("image"), "validation_error")
            /\ pc' = "idle"
            /\ dir' = dir
       ELSE IF images_dir = ""
       THEN \* line 819: os.listdir('') raises FileNotFoundError
            /\ run' = Ended(NewRun("image"), "exception")
            /\ pc' = "idle"
            /\ dir' = dir
       ELSE /\ Cardinality(DOMAIN dir) <= MaxFiles
            /\ \E images \in Listings(DOMAIN dir) :
                 LET fixed == fix_naming(dir, images)
                     r == [NewRun("image") EXCEPT
                             !.listing = images,
                             !.staged = fixed.written,
                             !.overwritten = fixed.written \cap DOMAIN dir]
                 IN /\ dir' = fixed.dir
                    /\ IF fixed.raised
                       THEN /\ run' = Ended(r, "exception")
                            /\ pc' = "idle"
                       ELSE \* line 791
                            /\ run' = [r EXCEPT !.current = Inv("image")]
                            /\ pc' = "image_encode"
    /\ UNCHANGED <<paths, meta, trim, s_max, speedVars, stats>>

\* lines 790-810: the invocation exits; the staged files are removed after
\* a success only
Image_encode_exit ==
    /\ pc = "image_encode"
    /\ \E ok \in BOOLEAN :
         IF ok
         THEN /\ dir' = Remove(dir, FilesToDelete(dir))
              /\ run' = [Ended(Exited(run, "ok"), "success")
                           EXCEPT !.deleted = FilesToDelete(dir)]
         ELSE /\ dir' = dir
              /\ run' = Ended(Exited(run, "failed"), "tool_failure")
    /\ pc' = "idle"
    /\ UNCHANGED <<paths, meta, trim, s_max, speedVars, stats, steps>>

(***************************************************************************)
(* The specification.                                                      *)
(***************************************************************************)
Next ==
    \/ get_input_video(FALSE)
    \/ get_input_video(TRUE)
    \/ get_image_file_dir
    \/ get_output_video
    \/ get_output_audio
    \/ set_trim_spinbox
    \/ slider_changed
    \/ box_changed
    \/ Compress_create_video
    \/ Compress_pass1_exit
    \/ Compress_pass2_exit
    \/ Trim_create_video
    \/ Speed_create_video
    \/ Cat_create_video
    \/ extract_audio
    \/ encode_exit
    \/ Image_create_video
    \/ Image_encode_exit

Spec == Init /\ [][Next]_vars

(***************************************************************************)
(* Properties.                                                             *)
(***************************************************************************)
\* the invocations of the current run: the completed ones and the one in flight
Attempted == { run.invs[i] : i \in 1..Len(run.invs) }
Invocations == Attempted \cup (IF run.current = NoInv THEN {} ELSE {run.current})

\* C1: in a compression run pass 2 is started only after pass 1 has exited
\* successfully, one invocation is in flight at a time, and a run whose
\* pass 1 failed ends without pass 2.
C1_PassesInOrder ==
    run.op = "compress" =>
      /\ (\E v \in Invocations : v.purpose = "pass2") =>
           /\ Len(run.invs) >= 1
           /\ run.invs[1].purpose = "pass1"
           /\ run.invs[1].status = "ok"
      /\ run.current # NoInv => \A v \in Attempted : v.status # "running"
      /\ (Len(run.invs) >= 1 /\ run.invs[1].status = "failed") =>
           /\ pc = "idle"
           /\ Len(run.invs) = 1
           /\ run.current = NoInv
C1_Witness ==
    /\ run.op = "compress"
    /\ run.result = "tool_failure"
    /\ Len(run.invs) = 1
    /\ run.invs[1].purpose = "pass1"

\* C2: after every compression run that attempted an invocation neither
\* statistics file is left in the working directory.
C2_StatsAlwaysRemoved ==
    (pc = "idle" /\ run.op = "compress" /\ Len(run.invs) >= 1) =>
        stats \cap StatsFiles = {}

\* C3: after every image-to-video run whose invocation has exited, with
\* success or failure, no file staged by the run is left in the directory.
C3_StagedAlwaysDeleted ==
    (pc = "idle" /\ run.op = "image" /\ Len(run.invs) = 1) =>
        run.staged \cap DOMAIN dir = {}

\* C4: an image-to-video run leaves every file that was in the directory
\* before the run in place with its content: staging overwrites none and
\* cleanup deletes only copies the run staged.
C4_OriginalsKept ==
    run.op = "image" =>
      /\ run.overwritten = {}
      /\ run.deleted \subseteq run.staged
      /\ \A n \in DOMAIN run.before : n \in DOMAIN dir /\ dir[n] = run.before[n]

\* the recognized images of the run's directory listing, in listing order
ListedImages == SelectSeq(run.listing, IsImage)

\* C5: a run on a directory with N recognized images stages exactly the
\* copies img-01.jpg .. img-NN.jpg, the k-th holding the k-th listed image,
\* a successful run deletes exactly those, and files with an unrecognized
\* extension are left as they were.
C5_StagesAndDeletesExactlyN ==
    (run.op = "image" /\ run.result # "validation_error" /\ images_dir # "") =>
      /\ run.staged = { StagedName(k) : k \in 1..Len(ListedImages) }
      /\ pc = "image_encode" =>
           \A k \in 1..Len(ListedImages) :
               dir[StagedName(k)] = run.before[ListedImages[k]]
      /\ run.result = "success" => run.deleted = run.staged
      /\ \A n \in DOMAIN run.before :
           ~IsImage(n) => n \in DOMAIN dir /\ dir[n] = run.before[n]

\* a handler of the given page starts in this step
Starts(op) == pc = "idle" /\ run'.id = run.id + 1 /\ run'.op = op
\* the step has issued no invocation and touched no file
NothingExecuted ==
    /\ pc' = "idle"
    /\ run'.invs = <<>>
    /\ run'.current = NoInv
    /\ run'.staged = {}
    /\ run'.deleted = {}
    /\ dir' = dir
    /\ stats' = stats

VideoRole(p) == SuffixLower(p) \in VIDEO_EXTENSIONS
AudioRole(p) == SuffixLower(p) \in AUDIO_EXTENSIONS
\* the page's required roles all classify as their required type; the
\* images directory is a directory path and carries no extension type
RolesMatch(op) ==
    CASE op \in {"compress", "trim", "speed"} ->
             VideoRole(input_video) /\ VideoRole(output_video)
      [] op = "cat" ->
             VideoRole(input_video) /\ VideoRole(input_video_2) /\ VideoRole(output_video)
      [] op = "image" -> VideoRole(output_video)
      [] op = "extract" -> VideoRole(input_video) /\ AudioRole(output_audio)
Pages == {"compress", "trim", "speed", "cat", "image", "extract"}

StartNotBeforeEnd ==
    IF frame_rate = 0
    THEN trim.sm * 60 + trim.ss >= trim.em * 60 + trim.es
    ELSE TrimStart >= TrimEnd

\* C7: a trim run whose start offset is not before its end offset ends with
\* a validation error and no invocation, whatever frame rate and duration
\* are held.
C7_BadTrimRejected ==
    [][(Starts("trim") /\ StartNotBeforeEnd) =>
          (run'.result = "validation_error" /\ NothingExecuted)]_vars

\* C8: a compression run with valid paths and a held duration <= 0 ends
\* with a validation error and no invocation; nothing is raised.
C8_NoDurationRejected ==
    [][(Starts("compress") /\ RolesMatch("compress") /\ video_duration <= 0) =>
          (run'.result = "validation_error" /\ NothingExecuted)]_vars

\* C9: no compression invocation carries a bitrate <= 0.
C9_BitratePositive ==
    \A v \in Invocations : v.purpose \in {"pass1", "pass2"} => v.bitrate > 0

\* line 433: '-b:a', '128k', the audio bitrate pass 2 requests, in bits per
\* second
pass2_audio_bps == 128000
\* (b * d + A * d) / 8 is the target size up to the truncation of b
RoundTrip(b, d, A) ==
    /\ (b + A) * d <= target_size_bytes * 8
    /\ target_size_bytes * 8 - (b + A) * d < d

\* C10: while a compression pass runs on a duration d > 0 its bitrate b
\* satisfies (b * d + 128000 * d) / 8 = 9 MiB up to truncation.
C10_SizingRoundTrip128000 ==
    (pc \in {"compress_pass1", "compress_pass2"} /\ video_duration > 0) =>
        RoundTrip(run.current.bitrate, video_duration, pass2_audio_bps)

\* the metadata a successful probe of the file stores
MetadataOf(f) == <<ProbedFps(Media(f.stem)), ProbedDuration(Media(f.stem))>>
\* the pairs the window can hold whole: the initial one, or the pair of one file
WholePairs == { <<0, 0>> } \cup { MetadataOf(f) : f \in { g \in InputFiles : Media(g.stem).ok } }

\* a selection step in which the probe printed o: the handler has run to its
\* end (path stored, spin box ranges updated) and no run was started
SelectionStep(is_second_file, f, o) ==
    /\ pc = "idle"
    /\ steps' = steps + 1
    /\ UNCHANGED <<output_video, output_audio, images_dir, speedVars, disk, pc, run>>
    /\ f \in InputFiles
    /\ o \in ProbeOutputs((IF is_second_file THEN input_video ELSE f).stem)
    /\ Selected(is_second_file, f, o)
\* the outputs of a failing probe of the file
FailingOutputs(f) == { o \in ProbeOutputs(f.stem) : ProbeFails(o) }

\* C11: a selection whose probe fails (no frame rate, or a frame rate but no
\* duration) leaves frame rate and duration as they were and the handler
\* returns normally; the held pair is never the frame rate of one file with
\* the duration of another.
C11_FailedProbeKeepsMetadata ==
    /\ [](<<frame_rate, video_duration>> \in WholePairs)
    /\ [][\A is_second_file \in BOOLEAN : \A o \in FailingOutputs(input_video') :
             SelectionStep(is_second_file,
                           IF is_second_file THEN input_video_2' ELSE input_video',
                           o) =>
                /\ frame_rate' = frame_rate
                /\ video_duration' = video_duration]_vars
\* a probe of long.mkv has failed while the metadata of clip.MP4 were held
C11_Witness ==
    /\ input_video = Path("long", ".mkv")
    /\ <<frame_rate, video_duration>> = MetadataOf(Path("clip", ".MP4"))

\* C12: in every reachable state the held frame rate is at least 1 and is
\* max(1, ceil(num / den)) of a probed file (30 for "30000/1001").
C12_FrameRateAtLeastOne ==
    /\ frame_rate >= 1
    /\ \E f \in InputFiles : Media(f.stem).ok /\ frame_rate = ProbedFps(Media(f.stem))

\* C13: an extraction run whose output extension has no entry in the codec
\* table ends with a validation error and no invocation, whether or not the
\* extension is a recognized audio extension.
C13_UnmappedAudioRejected ==
    [][(Starts("extract") /\ SuffixLower(output_audio) \notin AUDIO_CODEC_MAP) =>
          (run'.result = "validation_error" /\ NothingExecuted)]_vars

\* one of the two inputs is a video (and not an audio) file, the other is an
\* audio file
OneVideoOneAudio(a, b) == VideoRole(a) /\ ~AudioRole(a) /\ AudioRole(b)

\* C14: a concatenation run with one video input and one audio input ends
\* with a validation error and no invocation, also when the audio extension
\* is listed as a video extension too; a concatenation invocation exists
\* only with both inputs and the output video.
C14_VideoPlusAudioRejected ==
    /\ [][(Starts("cat") /\ (\/ OneVideoOneAudio(input_video, input_video_2)
                              \/ OneVideoOneAudio(input_video_2, input_video))) =>
              (run'.result = "validation_error" /\ NothingExecuted)]_vars
    /\ [](pc = "cat_encode" => RolesMatch("cat"))

\* C15: a speed run with a multiplier <= 0 ends with a validation error and
\* no invocation, and every speed invocation carries a multiplier > 0.
C15_NonPositiveSpeedRejected ==
    /\ [][(Starts("speed") /\ speed <= 0) =>
              (run'.result = "validation_error" /\ NothingExecuted)]_vars
    /\ [](\A v \in Invocations : v.purpose = "speed" => v.speed > 0)

\* a trim request the handler accepts: video paths, a held frame rate, and
\* a start before the end
ValidTrim == RolesMatch("trim") /\ frame_rate > 0 /\ TrimStart < TrimEnd
StartIsZero == trim.sm = 0 /\ trim.ss = 0 /\ trim.sf = 0
EndIsZero == trim.em = 0 /\ trim.es = 0 /\ trim.ef = 0

\* C16: a valid trim request issues an invocation, a trim run issues at
\* most one, and the invocation has the seek argument iff the start is not
\* zero, the cut-to argument iff the end is not zero (so always), and the
\* audio codec argument iff the input has an audio stream.
C16_TrimArguments ==
    /\ [][(Starts("trim") /\ ValidTrim) =>
              (pc' = "trim_encode" /\ run'.current.purpose = "trim")]_vars
    /\ [](run.op = "trim" =>
             Len(run.invs) + (IF run.current = NoInv THEN 0 ELSE 1) <= 1)
    /\ [](pc = "trim_encode" =>
             /\ run.invs = <<>>
             /\ run.current.hasSeek <=> ~StartIsZero
             /\ run.current.hasCutTo <=> ~EndIsZero
             /\ run.current.hasCutTo
             /\ run.current.audio <=> HasAudioStream(input_video.stem))
\* a trim invocation of a file without an audio stream, with a start other
\* than zero
C16_Witness ==
    /\ pc = "trim_encode"
    /\ run.current.hasSeek
    /\ ~run.current.audio

\* the held metadata are those of the selected first input
MetadataCurrent ==
    /\ Media(input_video.stem).ok
    /\ <<frame_rate, video_duration>> = MetadataOf(input_video)
\* the offset, in frames, lies past the end of the source (whose duration
\* is below video_duration + 1 seconds)
BeyondDuration(offset) == offset >= (video_duration + 1) * frame_rate

\* C17: a trim run whose start or end offset lies beyond the duration of
\* the source ends rejected, with no invocation.
C17_BeyondDurationRejected ==
    [][(Starts("trim") /\ MetadataCurrent
          /\ (BeyondDuration(TrimStart) \/ BeyondDuration(TrimEnd))) =>
          (run'.result = "validation_error" /\ NothingExecuted)]_vars

\* C18: whenever a trim or compression invocation is in flight the frame
\* rate and duration it was computed from are those of the selected first
\* input.
C18_MetadataOfSelectedInput ==
    pc \in {"trim_encode", "compress_pass1", "compress_pass2"} => MetadataCurrent

\* the file of the run's directory is one the user put there (not a copy
\* staged by a run)
IsOriginal(n) == run.before[n] = n

\* C19: every image a run lists is one of the user's originals, and a run
\* that staged without raising staged as many copies as there are original
\* recognized images.
C19_RunsIndependent ==
    (run.op = "image" /\ run.result \notin {"validation_error", "exception"}) =>
      /\ \A i \in 1..Len(run.listing) :
           IsImage(run.listing[i]) => IsOriginal(run.listing[i])
      /\ Cardinality(run.staged) =
           Cardinality({ n \in DOMAIN run.before : IsImage(n) /\ IsOriginal(n) })

====
